---- MODULE Spec2Model ----
(* Reconciliation of the stripe_webhook_endpoint resource                  *)
(* (stripe/resource_stripe_webhook_endpoint.go): the four lifecycle        *)
(* handlers Read, Create, Update, Delete acting on the declared-state      *)
(* store (schema.ResourceData) and on the remote webhook endpoint API.     *)
EXTENDS Integers, Sequences, FiniteSets, TLC

\* ---------------------------------------------------------------- bounds
\* number of remote objects the remote will ever create
MaxCreates == 1
\* number of times the framework re-plans (hands over a new configuration)
MaxPlans == 1

\* ------------------------------------------------------- value domains
Fields == {"enabled_events", "url", "description", "disabled", "metadata"}

Urls == {"https://a.example/hook", "https://b.example/hook"}

EventLists == {<<"charge.succeeded">>, <<"charge.succeeded", "charge.failed">>}

Descriptions == {"", "hook"}

\* a metadata map is the set of its <<key, value>> entries
Metadatas == {{}, {<<"env", "prod">>}, {<<"team", "pay">>}}

Statuses == {"enabled", "disabled", "pending"}

\* identifiers the remote hands out, in order of creation
IdName == <<"we_1", "we_2", "we_3", "we_4">>

RemoteIds == {IdName[i] : i \in 1..MaxCreates}

\* the secret the remote generates for an endpoint, once, at creation
SecretOf(rid) == <<"whsec", rid>>

NoSecret == <<>>

\* configurations a user can declare (schema: url and enabled_events
\* required, description and metadata optional, disabled defaults to false)
AllConfigs ==
  [enabled_events : EventLists, url : Urls, description : Descriptions,
   disabled : BOOLEAN, metadata : Metadatas]

\* the configuration of the end-to-end scenario
BaseConfig ==
  [enabled_events |-> <<"charge.succeeded">>, url |-> "https://a.example/hook",
   description |-> "", disabled |-> FALSE, metadata |-> {}]

\* the configurations the model declares: the base one, the ones that
\* differ from it in one field, and one that differs in every field
Configs ==
  {c \in AllConfigs :
     \/ Cardinality({F \in Fields : c[F] # BaseConfig[F]}) <= 1
     \/ c = [enabled_events |-> <<"charge.succeeded", "charge.failed">>,
             url |-> "https://b.example/hook", description |-> "hook",
             disabled |-> TRUE, metadata |-> {<<"team", "pay">>}]}

\* the sets of d.Set calls that fail together in one pass of write-backs:
\* none, the first one, one in the middle, two apart, the last one, all
FailSets ==
  {{}, {"enabled_events"}, {"description"}, {"url", "disabled"},
   {"metadata"}, Fields}

\* the zero value of every field (schema types string, bool, list, map)
ZeroState ==
  [enabled_events |-> <<>>, url |-> "", description |-> "",
   disabled |-> FALSE, metadata |-> {}]

\* a remote slot that holds no object
Absent ==
  [live |-> FALSE, enabled_events |-> <<>>, url |-> "", description |-> "",
   status |-> "enabled", metadata |-> {}]

\* stripe.WebhookEndpointParams with every pointer nil
EmptyParams == [has |-> {}, val |-> ZeroState]

VARIABLES
  id,       \* d.Id(): the identity held by the store, "" when unset
  secret,   \* the store's secret field
  changed,  \* the fields d.HasChange reports: declared differs from last state
  cur,      \* what d.Get returns: declared values overlaid by d.Set
  remote,   \* the remote service: id -> webhook endpoint object
  created,  \* number of objects the remote has created so far
  plans,    \* number of re-plans so far
  last      \* the handler that ran last, its outcome and its remote calls

vars == <<id, secret, changed, cur, remote, created, plans, last>>

\* ---------------------------------------------------- the store (SDK)
\* d.HasChange(F): compares the state level with the diff level; values
\* written with d.Set are not consulted
HasChange(F) == F \in changed

\* d.GetOk(F): the value together with "is not the zero value"
GetOkSet(F) == cur[F] # ZeroState[F]

\* ------------------------------------------------ the remote service
Live(rid) == rid \in RemoteIds /\ remote[rid].live

\* a creation that loses the url of the request
NewObject_DropsUrl(params) ==
  [live |-> TRUE,
   enabled_events |-> params.val.enabled_events,
   url |-> "",
   description |-> params.val.description,
   status |-> "enabled",
   metadata |-> params.val.metadata]

\* WebhookEndpoints.New: the object the remote stores for a creation request
NewObject(params) ==
  [live |-> TRUE,
   enabled_events |-> params.val.enabled_events,
   url |-> params.val.url,
   description |-> params.val.description,
   status |-> "enabled",
   metadata |-> params.val.metadata]

\* WebhookEndpoints.Update: the fields the request carries replace the
\* object's; the disabled flag drives the status
UpdatedObject(obj, params) ==
  [live |-> TRUE,
   enabled_events |-> IF "enabled_events" \in params.has
                      THEN params.val.enabled_events ELSE obj.enabled_events,
   url |-> IF "url" \in params.has THEN params.val.url ELSE obj.url,
   description |-> IF "description" \in params.has
                   THEN params.val.description ELSE obj.description,
   status |-> IF "disabled" \in params.has
              THEN (IF params.val.disabled THEN "disabled" ELSE "enabled")
              ELSE obj.status,
   metadata |-> IF "metadata" \in params.has
                THEN params.val.metadata ELSE obj.metadata]

\* ------------------------------------------------------------- Read
\* a projection that only recognises the status "disabled"
Disabled_OnlyDisabled(status) == IF status = "disabled" THEN TRUE ELSE FALSE

\* the projection of the remote status onto the boolean field
Disabled(status) == IF status = "enabled" THEN FALSE ELSE TRUE

\* a Read that hands the url to the description field
Resolved_DescriptionFromUrl(obj) ==
  [enabled_events |-> obj.enabled_events,
   url |-> obj.url,
   description |-> obj.url,
   disabled |-> Disabled(obj.status),
   metadata |-> obj.metadata]

\* the five values Read hands to d.Set
Resolved(obj) ==
  [enabled_events |-> obj.enabled_events,
   url |-> obj.url,
   description |-> obj.description,
   disabled |-> Disabled(obj.status),
   metadata |-> obj.metadata]

\* the position of each d.Set call among the arguments of CallSet
SetOrder ==
  [enabled_events |-> 1, url |-> 2, description |-> 3, disabled |-> 4,
   metadata |-> 5]

\* write-backs that stop at the first d.Set that fails
WriteBack_ShortCircuit(obj, failing) ==
  [F \in Fields |->
     IF \E G \in failing : SetOrder[G] <= SetOrder[F]
     THEN cur[F] ELSE Resolved(obj)[F]]

\* CallSet over the five d.Set calls: every call is made; the ones in
\* failing leave their field as it was and are reported
WriteBack(obj, failing) ==
  [F \in Fields |-> IF F \in failing THEN cur[F] ELSE Resolved(obj)[F]]

\* outcome of resourceStripeWebhookEndpointRead against remote state rem
\* for identity rid: getOk is the transport's verdict, failing the d.Set
\* calls that fail
ReadFound(rem, rid, getOk) == getOk /\ rid \in RemoteIds /\ rem[rid].live

\* a Read that empties the fields when the Get fails
ReadCur_ClearsOnError(rem, rid, getOk, failing) ==
  IF getOk /\ rid \in RemoteIds /\ rem[rid].live
  THEN WriteBack(rem[rid], failing) ELSE ZeroState

ReadCur(rem, rid, getOk, failing) ==
  IF ReadFound(rem, rid, getOk) THEN WriteBack(rem[rid], failing) ELSE cur

ReadErr(rem, rid, getOk, failing) ==
  IF ~ReadFound(rem, rid, getOk) THEN "remote"
  ELSE IF failing # {} THEN "writeback" ELSE "none"

ReadDiags(rem, rid, getOk, failing) ==
  IF ReadFound(rem, rid, getOk) THEN failing ELSE {}

\* every way one Read can end
ReadResults(rem, rid) ==
  {[cur |-> ReadCur(rem, rid, getOk, failing),
    err |-> ReadErr(rem, rid, getOk, failing),
    diags |-> ReadDiags(rem, rid, getOk, failing)] :
     getOk \in BOOLEAN, failing \in FailSets}

\* a handler that retries the call that failed
CallsAfter_Retry(first, proceed) ==
  IF proceed THEN <<first, "Get">> ELSE <<first, first>>

\* the remote calls of Create and Update: the first call, and the Get of
\* the trailing Read only when the handler did not return before it
CallsAfter(first, proceed) ==
  IF proceed THEN <<first, "Get">> ELSE <<first>>

Outcome(op, err, calls, params, diags, ret) ==
  [op |-> op, err |-> err, calls |-> calls, params |-> params,
   diags |-> diags, ret |-> ret]

NoRet == [id |-> "", secret |-> NoSecret]

Read ==
  /\ id # ""
  /\ \E r \in ReadResults(remote, id) :
       /\ cur' = r.cur
       /\ last' = Outcome("Read", r.err, <<"Get">>, EmptyParams, r.diags, NoRet)
  /\ UNCHANGED <<id, secret, changed, remote, created, plans>>

\* ----------------------------------------------------------- Create
\* a creation request that always carries the description
CreateParams_AlwaysDescription ==
  [has |-> {"url", "enabled_events", "description"}
           \cup (IF GetOkSet("metadata") THEN {"metadata"} ELSE {}),
   val |-> [enabled_events |-> cur.enabled_events,
            url |-> cur.url,
            description |-> cur.description,
            disabled |-> FALSE,
            metadata |-> IF GetOkSet("metadata") THEN cur.metadata ELSE {}]]

\* the creation request: url and enabled_events always, description and
\* the metadata entries only when d.GetOk reports them set
CreateParams ==
  [has |-> {"url", "enabled_events"}
           \cup (IF GetOkSet("description") THEN {"description"} ELSE {})
           \cup (IF GetOkSet("metadata") THEN {"metadata"} ELSE {}),
   val |-> [enabled_events |-> cur.enabled_events,
            url |-> cur.url,
            description |-> IF GetOkSet("description")
                            THEN cur.description ELSE "",
            disabled |-> FALSE,
            metadata |-> IF GetOkSet("metadata") THEN cur.metadata ELSE {}]]

\* the usage check left out
CreateRejected_NoCheck == FALSE

\* the usage check: disabled set and true
CreateRejected == GetOkSet("disabled") /\ cur.disabled

\* SetId moved in front of the secret write-back
CreateIdAfterNew_Early(secretOk, rid) == rid

\* the identity after the New call returned rid: SetId runs only after the
\* secret was written back
CreateIdAfterNew(secretOk, rid) == IF secretOk THEN rid ELSE id

\* the identifier written into the secret field
CreateSecretAfterNew_WritesId(secretOk, ret) ==
  IF secretOk THEN <<"whsec", "">> ELSE secret

\* the secret field after the New call: d.Set("secret", webhookEndpoint.Secret)
CreateSecretAfterNew(secretOk, ret) == IF secretOk THEN ret.secret ELSE secret

Create ==
  /\ id = ""
  /\ created < MaxCreates
  /\ LET rid == IdName[created + 1]
         rem == [remote EXCEPT ![rid] = NewObject(CreateParams)]
         ret == [id |-> rid, secret |-> SecretOf(rid)]
     IN
     IF CreateRejected
     THEN /\ last' = Outcome("Create", "usage", <<>>, EmptyParams, {}, NoRet)
          /\ UNCHANGED <<id, secret, cur, remote, created>>
     ELSE \E newOk \in BOOLEAN :
       IF ~newOk
       THEN /\ last' = Outcome("Create", "remote", CallsAfter("New", FALSE), CreateParams,
                               {}, NoRet)
            /\ UNCHANGED <<id, secret, cur, remote, created>>
       ELSE \E secretOk \in BOOLEAN :
         IF ~secretOk
         THEN /\ remote' = rem
              /\ created' = created + 1
              /\ last' = Outcome("Create", "writeback",
                                 CallsAfter("New", FALSE),
                                 CreateParams, {"secret"}, ret)
              /\ id' = CreateIdAfterNew(FALSE, rid)
              /\ secret' = CreateSecretAfterNew(FALSE, ret)
              /\ UNCHANGED cur
         ELSE \E r \in ReadResults(rem, rid) :
              /\ remote' = rem
              /\ created' = created + 1
              /\ secret' = CreateSecretAfterNew(TRUE, ret)
              /\ id' = CreateIdAfterNew(TRUE, rid)
              /\ cur' = r.cur
              /\ last' = Outcome("Create", r.err, CallsAfter("New", TRUE),
                                 CreateParams, r.diags, ret)
  /\ UNCHANGED <<changed, plans>>

\* ----------------------------------------------------------- Update
\* the update request: one field per d.HasChange; the metadata map is
\* reset to nil and refilled entry by entry, so it stays nil when the
\* declared map has no entry
UpdateParams ==
  [has |-> {F \in Fields \ {"metadata"} : HasChange(F)}
           \cup (IF HasChange("metadata") /\ cur.metadata # {}
                 THEN {"metadata"} ELSE {}),
   val |-> [F \in Fields |-> IF HasChange(F) THEN cur[F] ELSE ZeroState[F]]]

Update ==
  /\ id # ""
  /\ LET rem == [remote EXCEPT ![id] = UpdatedObject(remote[id], UpdateParams)]
     IN
     \E updOk \in BOOLEAN :
       IF ~(updOk /\ Live(id))
       THEN /\ last' = Outcome("Update", "remote", CallsAfter("Update", FALSE), UpdateParams,
                               {}, NoRet)
            /\ UNCHANGED <<cur, remote>>
       ELSE \E r \in ReadResults(rem, id) :
            /\ remote' = rem
            /\ cur' = r.cur
            /\ last' = Outcome("Update", r.err, CallsAfter("Update", TRUE),
                               UpdateParams, r.diags, NoRet)
  /\ UNCHANGED <<id, secret, changed, created, plans>>

\* ----------------------------------------------------------- Delete
\* Delete without the SetId("")
DeletedId_Kept == id

\* the identity Delete leaves behind: d.SetId("")
DeletedId == ""

Delete ==
  /\ id # ""
  /\ \E delOk \in BOOLEAN :
       IF ~(delOk /\ Live(id))
       THEN /\ last' = Outcome("Delete", "remote", <<"Del">>, EmptyParams,
                               {}, NoRet)
            /\ UNCHANGED <<id, remote>>
       ELSE /\ remote' = [remote EXCEPT ![id] = Absent]
            /\ id' = DeletedId
            /\ last' = Outcome("Delete", "none", <<"Del">>, EmptyParams,
                               {}, NoRet)
  /\ UNCHANGED <<secret, changed, cur, created, plans>>

\* ------------------------------------------------------ environment
\* the framework hands the handlers a store built from the state saved
\* after the previous handler and a newly declared configuration
\* the state the framework saved: none (zero values) while no identity is
\* held, the values the store holds otherwise
PriorState == IF id = "" THEN ZeroState ELSE cur

Plan ==
  /\ plans < MaxPlans
  /\ \E cfg \in Configs :
       /\ changed' = {F \in Fields : PriorState[F] # cfg[F]}
       /\ cur' = cfg
  /\ plans' = plans + 1
  /\ last' = Outcome("Plan", "none", <<>>, EmptyParams, {}, NoRet)
  /\ UNCHANGED <<id, secret, remote, created>>

\* the remote service changes the status of an endpoint on its own
StatusChange ==
  /\ \E rid \in RemoteIds, s \in Statuses :
       /\ rid = id
       /\ remote[rid].live
       /\ remote[rid].status # s
       /\ remote' = [remote EXCEPT ![rid].status = s]
  /\ last' = Outcome("StatusChange", "none", <<>>, EmptyParams, {}, NoRet)
  /\ UNCHANGED <<id, secret, changed, cur, created, plans>>

Init ==
  /\ id = ""
  /\ secret = NoSecret
  /\ cur \in Configs
  /\ changed = {F \in Fields : ZeroState[F] # cur[F]}
  /\ remote = [r \in RemoteIds |-> Absent]
  /\ created = 0
  /\ plans = 0
  /\ last = Outcome("Init", "none", <<>>, EmptyParams, {}, NoRet)

Next == Read \/ Create \/ Update \/ Delete \/ Plan \/ StatusChange

Spec == Init /\ [][Next]_vars

\* =================================================================
\* Properties

CreateFailed == last.op = "Create" /\ last.err # "none"

\* C1: a Create with disabled set to true ends with a usage error, issues
\* no remote call (neither New nor Get), creates no remote object and
\* leaves id (unset) and secret as they were.
C1_RejectsDisabledCreate ==
  [][(last'.op = "Create" /\ cur.disabled)
       => /\ last'.err = "usage"
          /\ last'.calls = <<>>
          /\ remote' = remote
          /\ created' = created
          /\ id' = "" /\ id' = id
          /\ secret' = secret]_vars

C1_Witness ==
  /\ last.op = "Create" /\ last.err = "usage" /\ last.calls = <<>>
  /\ cur.disabled /\ id = ""

\* C2: after a successful Create, id and secret hold the values the New
\* call returned, and the Read that follows (the trailing one and a later
\* successful one) resolves the url and the enabled events of the creation
\* request.
C2_CreateIdentity ==
  /\ []((last.op = "Create" /\ last.err = "none")
          => /\ id = last.ret.id /\ id # ""
             /\ secret = last.ret.secret /\ secret # NoSecret
             /\ "url" \in last.params.has
             /\ "enabled_events" \in last.params.has
             /\ cur.url = last.params.val.url
             /\ cur.enabled_events = last.params.val.enabled_events)
  /\ [][(last.op = "Create" /\ last.err = "none"
         /\ last'.op = "Read" /\ last'.err = "none")
          => /\ id' = last.ret.id
             /\ cur'.url = last.params.val.url
             /\ cur'.enabled_events = last.params.val.enabled_events]_vars

C2_Witness ==
  /\ last.op = "Create" /\ last.err = "none"
  /\ id = "we_1" /\ secret = SecretOf("we_1")
  /\ cur.url = "https://b.example/hook"

\* C4: after a successful Read (on its own or at the end of Create or
\* Update) disabled equals (status # "enabled") for the status of the
\* remote object; after a successful Create disabled is false.
C4_DisabledProjection ==
  /\ (last.op \in {"Read", "Create", "Update"} /\ last.err = "none")
       => /\ Live(id)
          /\ cur.disabled = (remote[id].status # "enabled")
  /\ (last.op = "Create" /\ last.err = "none") => cur.disabled = FALSE

C4_Witness ==
  /\ last.op = "Read" /\ last.err = "none"
  /\ Live(id) /\ remote[id].status = "pending" /\ cur.disabled

\* C5: a Delete that succeeds leaves id = "" and the remote object gone; a
\* Delete whose Del call fails returns the error and leaves id as it was.
C5_DeleteClearsIdentity ==
  [][last'.op = "Delete"
       => /\ last'.calls = <<"Del">>
          /\ last'.err = "none" => (id' = "" /\ ~remote'[id].live)
          /\ last'.err # "none" =>
               (last'.err = "remote" /\ id' = id /\ id' # ""
                /\ remote' = remote)]_vars

C5_Witness ==
  /\ last.op = "Delete" /\ last.err = "none" /\ id = ""
  /\ \A r \in RemoteIds : ~remote[r].live

\* C3: the request of an Update carries field F exactly when F is in the
\* change set, and for every changed F it carries the declared value, an
\* empty description or an empty metadata map included.
C3_PartialUpdate ==
  [][last'.op = "Update"
       => \A F \in Fields :
            /\ (F \in last'.params.has) <=> (F \in changed)
            /\ (F \in changed) => last'.params.val[F] = cur[F]]_vars

\* some object created through this store exists on the remote
ExistsRemotely == \E r \in RemoteIds : remote[r].live

\* C6: in every reachable state, id is non-empty exactly when the resource
\* exists remotely.
C6_IdIffExists == (id # "") <=> ExistsRemotely

\* C7 as stated: whenever Create returns an error, id is still empty.
C7_FailedCreateIdEmpty == CreateFailed => id = ""

\* C7: whenever Create returns an error from the usage check, the New call
\* or the secret write-back, id is still empty; when the error comes from
\* the trailing Read, id is the identifier New returned, and it names a
\* remote object that exists.
C7_FailedCreateIdentity ==
  CreateFailed =>
    IF last.calls = <<"New", "Get">>
    THEN id = last.ret.id /\ id # "" /\ Live(id)
    ELSE id = "" /\ last.calls \in {<<>>, <<"New">>}

C7_Witness ==
  /\ CreateFailed /\ last.calls = <<"New", "Get">> /\ last.err = "writeback"
  /\ id = "we_1"

\* C8: only Create writes secret, in the invocation that assigns id, with
\* the secret New returned; Read, Update and Delete leave it alone, so as
\* long as id is set secret is the one captured when that id was created.
C8_SecretOnlyByCreate ==
  /\ [][last'.op \in {"Read", "Update", "Delete"} => secret' = secret]_vars
  /\ [][secret' # secret
          => /\ last'.op = "Create"
             /\ id = "" /\ id' = last'.ret.id /\ id' # ""
             /\ secret' = last'.ret.secret]_vars
  /\ [](id # "" => secret = SecretOf(id))

C8_Witness ==
  /\ last.op = "Update" /\ last.err = "none"
  /\ id = "we_1" /\ secret = SecretOf("we_1")

\* C9 as stated: whenever Update returns an error, the field values and
\* the change set are the same as before the call.
C9_FailedUpdateKeepsStore ==
  [][(last'.op = "Update" /\ last'.err # "none")
       => (cur' = cur /\ changed' = changed)]_vars

\* C9: whenever Update returns an error, id, secret and the change set are
\* the same as before the call; the field values are the same when the
\* Update call or the Get failed, and after a write-back failure every
\* field whose write-back succeeded holds the value of the remote object.
C9_FailedUpdateStore ==
  [][(last'.op = "Update" /\ last'.err # "none")
       => /\ changed' = changed /\ id' = id /\ secret' = secret
          /\ last'.err = "remote" => cur' = cur
          /\ last'.err = "writeback" =>
               /\ last'.diags # {}
               /\ \A F \in Fields :
                    cur'[F] = IF F \in last'.diags THEN cur[F]
                              ELSE Resolved(remote'[id])[F]]_vars

C9_Witness ==
  /\ last.op = "Update" /\ last.err = "writeback"
  /\ last.diags = {"enabled_events"}
  /\ cur.disabled /\ ~("disabled" \in changed)

\* C10: when New succeeds and the write-back of secret fails, Create
\* returns at once: id is not assigned, no Get is issued and no field
\* (secret included) is written.
C10_SecretWriteBackFailure ==
  [][(last'.op = "Create" /\ last'.diags = {"secret"})
       => /\ last'.err = "writeback"
          /\ last'.calls = <<"New">>
          /\ id' = id /\ id' = ""
          /\ cur' = cur
          /\ secret' = secret]_vars

C10_Witness ==
  /\ last.op = "Create" /\ last.diags = {"secret"}
  /\ id = "" /\ remote["we_1"].live

\* -----------------------------------------------------------------
\* the store's field F holds what the remote object obj holds
HoldsRemote(c, obj, F) ==
  CASE F = "enabled_events" -> c.enabled_events = obj.enabled_events
    [] F = "url" -> c.url = obj.url
    [] F = "description" -> c.description = obj.description
    [] F = "disabled" -> c.disabled = (obj.status # "enabled")
    [] F = "metadata" -> c.metadata = obj.metadata

\* C11: every handler issues its remote calls in a fixed order, none
\* twice: Read one Get; Delete one Del; Create one New and, only when New
\* and the secret write-back succeeded, one Get after it; Update one Update
\* and, only when it succeeded, one Get after it. A failed call ends the
\* handler: nothing is retried and no further call is made.
C11_CallOrder ==
  [][/\ last'.op = "Read" => last'.calls = <<"Get">>
     /\ last'.op = "Delete" => last'.calls = <<"Del">>
     /\ last'.op = "Create" =>
          /\ last'.calls \in {<<>>, <<"New">>, <<"New", "Get">>}
          /\ (last'.calls = <<>>) <=> (last'.err = "usage")
          /\ (last'.calls = <<"New", "Get">>)
               <=> (created' = created + 1 /\ secret' = last'.ret.secret
                    /\ last'.diags # {"secret"})
          /\ (last'.calls = <<"New">> /\ last'.err = "remote")
               => (remote' = remote /\ created' = created)
     /\ last'.op = "Update" =>
          /\ last'.calls \in {<<"Update">>, <<"Update", "Get">>}
          /\ (last'.calls = <<"Update">>)
               => (last'.err = "remote" /\ remote' = remote /\ cur' = cur)
          /\ (last'.calls = <<"Update", "Get">>)
               => remote'[id] = UpdatedObject(remote[id], last'.params)
          /\ last'.err = "none" => last'.calls = <<"Update", "Get">>]_vars

C11_Witness ==
  /\ last.op = "Update" /\ last.err = "remote" /\ last.calls = <<"Update">>
  /\ "url" \in last.params.has /\ remote[id].url # last.params.val.url

\* C12: Read and Update leave id as it was, whether they succeed or fail;
\* Read changes nothing on the remote; a Read whose Get fails writes no
\* field and does not clear id; only Create takes id from empty to set and
\* only Delete takes it from set to empty.
C12_LifecycleFrame ==
  [][/\ last'.op \in {"Read", "Update"} => id' = id
     /\ last'.op = "Read" => (remote' = remote /\ created' = created)
     /\ (last'.op = "Read" /\ last'.err = "remote")
          => (cur' = cur /\ secret' = secret /\ id' # "" /\ last'.diags = {})
     /\ (id = "" /\ id' # "") => last'.op = "Create"
     /\ (id # "" /\ id' = "") => last'.op = "Delete"]_vars

C12_Witness ==
  /\ last.op = "Read" /\ last.err = "remote" /\ id = "we_1"
  /\ cur.url # remote[id].url

\* C13: when the Get of a Read succeeds, all five write-backs are attempted
\* whichever of them fail: every field outside the reported failures holds
\* the remote value afterwards, also one that comes after a failed one, and
\* every field that was not written is among the reported failures.
C13_BatchWriteBack ==
  [][(last'.op = "Read" /\ last'.err # "remote")
       => /\ last'.diags \subseteq Fields
          /\ (last'.err = "writeback") <=> (last'.diags # {})
          /\ \A F \in Fields :
               IF F \in last'.diags
               THEN cur'[F] = cur[F]
               ELSE HoldsRemote(cur', remote[id], F)]_vars

C13_Witness ==
  /\ last.op = "Read" /\ last.diags = {"url", "disabled"}
  /\ cur.disabled # (remote[id].status # "enabled")
  /\ cur.url # remote[id].url
  /\ cur.metadata = remote[id].metadata /\ cur.metadata # {}

\* C14: the creation request always carries url and enabled_events with
\* the declared values; it carries description exactly when one is
\* declared, and exactly the declared metadata entries (none when there is
\* no metadata); it never carries the disabled flag.
C14_CreateRequest ==
  [][(last'.op = "Create" /\ last'.calls # <<>>)
       => /\ {"url", "enabled_events"} \subseteq last'.params.has
          /\ last'.params.val.url = cur.url
          /\ last'.params.val.enabled_events = cur.enabled_events
          /\ ("description" \in last'.params.has) <=> (cur.description # "")
          /\ ("description" \in last'.params.has)
               => last'.params.val.description = cur.description
          /\ ("metadata" \in last'.params.has) <=> (cur.metadata # {})
          /\ last'.params.val.metadata = cur.metadata
          /\ ~("disabled" \in last'.params.has)]_vars

C14_Witness ==
  /\ last.op = "Create" /\ last.calls = <<"New", "Get">>
  /\ last.params.has = {"url", "enabled_events", "metadata"}
  /\ last.params.val.metadata = {<<"env", "prod">>}

\* C15: when metadata is in the change set, the metadata of the remote
\* object after a successful Update call is exactly the declared entries: a
\* key dropped from the declaration is gone.
C15_MetadataReplaced ==
  [][(last'.op = "Update" /\ last'.calls = <<"Update", "Get">>
      /\ "metadata" \in changed)
       => remote'[id].metadata = cur.metadata]_vars

\* C16: whenever Read, Create or Update returns success, url,
\* enabled_events, description and metadata of the store equal those of the
\* remote object and disabled is the projection of its status.
C16_Converged ==
  (last.op \in {"Read", "Create", "Update"} /\ last.err = "none")
    => /\ Live(id)
       /\ \A F \in Fields : HoldsRemote(cur, remote[id], F)

C16_Witness ==
  /\ last.op = "Update" /\ last.err = "none"
  /\ cur.disabled /\ cur.description = "hook"
  /\ cur.description = remote[id].description

\* remote objects that no store id refers to
Orphans == {r \in RemoteIds : remote[r].live /\ r # id}

\* C17: a non-empty id always names a remote object that exists; an orphan
\* appears only in a Create whose New call succeeded and whose secret
\* write-back failed.
C17_NoDanglingId ==
  /\ [](id # "" => Live(id))
  /\ [][~(Orphans' \subseteq Orphans)
          => /\ last'.op = "Create"
             /\ last'.calls = <<"New">>
             /\ last'.err = "writeback" /\ last'.diags = {"secret"}
             /\ Orphans' = Orphans \cup {last'.ret.id}]_vars

C17_Witness ==
  /\ Orphans = {"we_1"} /\ id = "" /\ secret = NoSecret
  /\ last.err = "writeback"
====
